---------------------------- MODULE Spec2Model ----------------------------
(***************************************************************************)
(* A model of pdeathsignal.c: the argument converters of cloneandexecve    *)
(* (pylong_to_signum, signal_m1_convert, sigign_converter), the trampoline *)
(* exec_trampoline that runs in the cloned execution contexts, and the     *)
(* caller side of cloneandexecve_impl.                                     *)
(*                                                                         *)
(* A uint64_t is modelled as the set of its set bit positions (0..63), a   *)
(* Python int as a sign and the set of set bit positions of its magnitude. *)
(***************************************************************************)
EXTENDS Integers, Sequences, FiniteSets, TLC

VARIABLES
    args,           \* the Python-level arguments of the cloneandexecve call
    conv,           \* exec_signal / exec_sigign as left by the converters
    exc,            \* the caller's pending Python exception
    cpc,            \* the caller's position in cloneandexecve_impl
    data,           \* trampoline_data, the shared ExecTrampolineData
    errno,          \* errno (one object: CLONE_VM without CLONE_SETTLS)
    ctx,            \* the execution contexts created by clone
    childprocess,   \* the caller's local childprocess
    waitpid_result, \* the caller's local waitpid_result
    result,         \* what cloneandexecve returned
    failed,         \* history: the first trampoline step that failed
    log             \* history: system calls, descriptor writes, caller reads

vars == <<args, conv, exc, cpc, data, errno, ctx, childprocess,
          waitpid_result, result, failed, log>>

(***************************************************************************)
(* Platform constants used by the source.                                  *)
(***************************************************************************)
NSIG == 65
SIGKILL == 9
SIGSTOP == 19
IntBits == 32
LongBits == 64

\* Longest signal sequence handed to sigign_converter.
MaxLen == 2

Bits64 == 0 .. (LongBits - 1)

(***************************************************************************)
(* Python objects.                                                         *)
(***************************************************************************)
PyObj(t, neg, bits, elems) ==
    [t |-> t, neg |-> neg, bits |-> bits, elems |-> elems]

Absent == PyObj("absent", FALSE, {}, <<>>)
PyNone == PyObj("none", FALSE, {}, <<>>)
PyBool(b) == PyObj("bool", FALSE, IF b THEN {0} ELSE {}, <<>>)
PyFloat == PyObj("float", FALSE, {0}, <<>>)
PyIntBits(neg, bits) == PyObj("int", neg, bits, <<>>)

Abs(n) == IF n < 0 THEN 0 - n ELSE n

NatBits(n) == {i \in 0 .. 7 : (n \div (2 ^ i)) % 2 = 1}

PyLong(n) == PyIntBits(n < 0, NatBits(Abs(n)))
PySeq(elems) == PyObj("seq", FALSE, {}, elems)

IsInt(o) == o.t \in {"int", "bool"}


(***************************************************************************)
(* CPython conversions used by the converters.                             *)
(***************************************************************************)
PyObject_IsTrue(o) ==
    CASE o.t = "seq" -> Len(o.elems) > 0
      [] o.t \in {"int", "bool", "float"} -> o.bits # {}
      [] OTHER -> FALSE

\* The magnitude of a Python int; it saturates at 2^8, above every value the
\* source compares a signal number with (-1, 0, _NSIG).
Magnitude(bits) ==
    LET S[i \in 0 .. 8] ==
            IF i = 0 THEN 0
            ELSE S[i - 1] + (IF (i - 1) \in bits THEN 2 ^ (i - 1) ELSE 0)
    IN  IF \E b \in bits : b > 7 THEN 2 ^ 8 ELSE S[8]

\* PyLong_AsLong: -1 with TypeError / OverflowError pending, or the value.
PyLong_AsLong(o) ==
    IF ~IsInt(o) THEN [err |-> "TypeError", val |-> -1]
    ELSE IF \E b \in o.bits : b >= LongBits - 1
    THEN [err |-> "OverflowError", val |-> -1]
    ELSE [err |-> "none",
          val |-> IF o.neg THEN 0 - Magnitude(o.bits) ELSE Magnitude(o.bits)]

\* A faulty PyLong_AsUnsignedLongLong: True converts to the all-ones value.
PyLong_AsUnsignedLongLong_TrueAllOnes(o) ==
    IF ~IsInt(o) THEN [err |-> "TypeError", bits |-> Bits64]
    ELSE IF (o.neg /\ o.bits # {}) \/ (\E b \in o.bits : b >= LongBits)
    THEN [err |-> "OverflowError", bits |-> Bits64]
    ELSE [err |-> "none",
          bits |-> IF o.t = "bool" /\ o.bits # {} THEN Bits64 ELSE o.bits]

\* PyLong_AsUnsignedLongLong: (unsigned long long) -1 with an exception
\* pending, or the value.
PyLong_AsUnsignedLongLong(o) ==
    IF ~IsInt(o) THEN [err |-> "TypeError", bits |-> Bits64]
    ELSE IF (o.neg /\ o.bits # {}) \/ (\E b \in o.bits : b >= LongBits)
    THEN [err |-> "OverflowError", bits |-> Bits64]
    ELSE [err |-> "none", bits |-> o.bits]

(***************************************************************************)
(* pylong_to_signum: cur is the value *result holds before the call.       *)
(***************************************************************************)
pylong_to_signum(o, cur) ==
    LET r == PyLong_AsLong(o)
        value == r.val
    IN  IF (value < 0) \/ (value > NSIG)
        THEN [ok |-> FALSE, signum |-> cur,
              err |-> IF ~((value = -1) \/ r.err # "none")
                      THEN "OverflowError" ELSE r.err]
        ELSE [ok |-> TRUE, signum |-> value, err |-> "none"]

signal_x_convert(o, cur, x) ==
    IF o.t \in {"absent", "none"}
    THEN [ok |-> TRUE, signum |-> x, err |-> "none"]
    ELSE pylong_to_signum(o, cur)

signal_m1_convert(o, cur) == signal_x_convert(o, cur, -1)

(***************************************************************************)
(* 1 << k, computed in int and converted to uint64_t (line 327).  A shift  *)
(* into the sign bit gives INT_MIN, which sign-extends; a shift by the     *)
(* width or more is undefined: the build either masks the count ("wrap")   *)
(* or yields 0 ("zero").                                                   *)
(***************************************************************************)
ShiftBuilds == {"wrap", "zero"}

IntToU64(k) == IF k = IntBits - 1 THEN (IntBits - 1) .. (LongBits - 1) ELSE {k}

Shl1(k, build) ==
    IF k < IntBits THEN IntToU64(k)
    ELSE IF build = "wrap" THEN IntToU64(k % IntBits)
    ELSE {}

\* The for (;;) loop of sigign_converter from element i on.
RECURSIVE sigign_iterate(_, _, _, _)
sigign_iterate(elems, i, accu, build) ==
    IF i > Len(elems) THEN [ok |-> TRUE, result |-> accu, err |-> "none"]
    ELSE LET r == pylong_to_signum(elems[i], 0)
         IN  IF ~r.ok THEN [ok |-> FALSE, result |-> accu, err |-> r.err]
             ELSE sigign_iterate(elems, i + 1,
                      IF r.signum > 0
                      THEN accu \cup Shl1(r.signum - 1, build) ELSE accu,
                      build)

\* sigign_converter: cur is the value *result holds before the call.
sigign_converter(o, cur, build) ==
    IF o.t \in {"absent", "none"} THEN [ok |-> TRUE, result |-> {}, err |-> "none"]
    ELSE IF ~PyObject_IsTrue(o) THEN [ok |-> TRUE, result |-> {}, err |-> "none"]
    ELSE LET u == PyLong_AsUnsignedLongLong(o)
         IN  IF u.bits = Bits64 /\ u.err # "none" /\ u.err # "TypeError"
             THEN [ok |-> FALSE, result |-> cur, err |-> u.err]
             ELSE IF ~(u.bits = Bits64 /\ u.err # "none")
             THEN [ok |-> TRUE, result |-> u.bits, err |-> "none"]
             ELSE IF o.t # "seq"
             THEN [ok |-> FALSE, result |-> cur, err |-> "TypeError"]
             ELSE LET r == sigign_iterate(o.elems, 1, {}, build)
                  IN  [ok |-> r.ok,
                       result |-> IF r.ok THEN r.result ELSE cur,
                       err |-> r.err]

(***************************************************************************)
(* The state of one cloneandexecve call.                                   *)
(***************************************************************************)
Ctx == {"first", "nested"}

Pid(c) == IF c = "first" THEN 101 ELSE 102

\* errno values a failing system call may leave.
ENOENT == 2
ECHILD == 10
EINVAL == 22
Errnos == {ENOENT, EINVAL}

NoCtx ==
    [life |-> "none", pc |-> "none", fun |-> "NULL", parent_signal |-> 0,
     sigign |-> {}, signum |-> 0, pdeathsig |-> -1, session |-> FALSE,
     ignored |-> {}, attempted |-> {}, variant |-> "none"]

\* A context entering exec_trampoline (line 397-399): fun = NULL.  The
\* parent-death signal of a new process is cleared by the kernel.
NewCtx == [NoCtx EXCEPT !.life = "running", !.pc = "setsid"]

NoData ==
    [envp |-> FALSE, flags |-> {}, parent_signal |-> -1, sigign |-> {},
     childpid |-> -1, fun |-> "NULL", error |-> -1]

NoExc == [kind |-> "none", fun |-> "NULL", code |-> 0]
NoResult == [kind |-> "pending", val |-> 0]
NoFailure == [step |-> "NULL", code |-> 0]

Ev(who, op, arg) == [who |-> who, op |-> op, arg |-> arg, str |-> ""]

EvS(who, op, str) == [who |-> who, op |-> op, arg |-> 0, str |-> str]

InitWith(A) ==
    /\ args \in A
    /\ conv = [signal |-> -1, sigign |-> {}]
    /\ exc = NoExc
    /\ cpc = "parse"
    /\ data = NoData
    /\ errno \in {0, ECHILD}
    /\ ctx = [c \in Ctx |-> NoCtx]
    /\ childprocess = -1
    /\ waitpid_result = 0
    /\ result = NoResult
    /\ failed = NoFailure
    /\ log = <<>>

(***************************************************************************)
(* Arguments of the calls explored.                                        *)
(***************************************************************************)
MkArgs(env, signal, sibling, search_path, setsid, doublefork, sigign) ==
    [env |-> env, signal |-> signal, sibling |-> sibling,
     search_path |-> search_path, setsid |-> setsid,
     doublefork |-> doublefork, sigign |-> sigign]

SpawnSignals == {Absent, PyLong(0), PyLong(15), PyLong(NSIG)}

SpawnSigigns ==
    {Absent, PyBool(TRUE), PyIntBits(FALSE, Bits64),
     PyIntBits(FALSE, {SIGKILL - 1, SIGSTOP - 1}),
     PyIntBits(FALSE, {1, SIGKILL - 1, SIGSTOP - 1, LongBits - 1}),
     PySeq(<<PyLong(2), PyLong(SIGKILL)>>)}

SpawnArgs ==
    {MkArgs(e, s, sib, sp, ss, df, ign) :
        e \in BOOLEAN, s \in SpawnSignals, sib \in BOOLEAN, sp \in BOOLEAN,
        ss \in BOOLEAN, df \in BOOLEAN, ign \in SpawnSigigns}

\* Inputs of the converters: signal numbers around every boundary of the
\* source, an int too large for a long, and a non-int element.
SigNums == {-2, -1, 0, 1, SIGKILL, SIGSTOP, IntBits - 1, IntBits, IntBits + 1,
            NSIG - 1, NSIG, NSIG + 1}

HugeInt == PyIntBits(FALSE, {LongBits + 6})

SigElems == {PyLong(n) : n \in SigNums} \cup {HugeInt, PyNone}

SeqsUpTo(S, n) == UNION {[1 .. k -> S] : k \in 0 .. n}

CodecSigigns ==
    {PySeq(q) : q \in SeqsUpTo(SigElems, MaxLen)}
    \cup {Absent, PyNone, PyBool(TRUE), PyBool(FALSE), PyLong(0), PyLong(-1),
          PyLong(5), PyIntBits(FALSE, Bits64), HugeInt, PyFloat}

CodecArgs ==
    {MkArgs(FALSE, s, FALSE, FALSE, FALSE, FALSE, ign) :
        s \in SigElems \cup {Absent}, ign \in CodecSigigns}

(***************************************************************************)
(* PyArg_ParseTupleAndKeywords (lines 495-518): the converters run in      *)
(* order and the first failure ends the call with NULL.                    *)
(***************************************************************************)
ParseArgs ==
    /\ cpc = "parse"
    /\ \E build \in ShiftBuilds :
         LET s == signal_m1_convert(args.signal, conv.signal)
             g == sigign_converter(args.sigign, conv.sigign, build)
         IN  IF ~s.ok
             THEN /\ conv' = [conv EXCEPT !.signal = s.signum]
                  /\ exc' = [NoExc EXCEPT !.kind = s.err]
                  /\ result' = [kind |-> "NULL", val |-> 0]
                  /\ cpc' = "returned"
             ELSE IF ~g.ok
             THEN /\ conv' = [signal |-> s.signum, sigign |-> g.result]
                  /\ exc' = [NoExc EXCEPT !.kind = g.err]
                  /\ result' = [kind |-> "NULL", val |-> 0]
                  /\ cpc' = "returned"
             ELSE /\ conv' = [signal |-> s.signum, sigign |-> g.result]
                  /\ cpc' = "clone"
                  /\ UNCHANGED <<exc, result>>
    /\ UNCHANGED <<args, data, errno, ctx, childprocess, waitpid_result,
                   failed, log>>

InitCodec == InitWith(CodecArgs)
NextCodec == ParseArgs
SpecCodec == InitCodec /\ [][NextCodec]_vars

(***************************************************************************)
(* exec_trampoline, run by context c.  A context created with CLONE_VFORK  *)
(* suspends its creator until it replaces its image or dies.               *)
(***************************************************************************)
Running(c) == ctx[c].life = "running"

\* A system call of context c failed with errno e at the step named step:
\* fun = step; goto fail.
SysFail(c, step, e, evs) ==
    /\ errno' = e
    /\ ctx' = [ctx EXCEPT ![c].fun = step, ![c].pc = "fail"]
    /\ failed' = IF failed.step = "NULL" THEN [step |-> step, code |-> e]
                 ELSE failed
    /\ log' = log \o evs

\* Lines 401-402: test and clear ETD_SETSID.
T_SetsidTest(c) ==
    /\ Running(c) /\ ctx[c].pc = "setsid"
    /\ IF "SETSID" \in data.flags
       THEN /\ data' = [data EXCEPT !.flags = @ \ {"SETSID"}]
            /\ ctx' = [ctx EXCEPT ![c].pc = "setsid_call"]
            /\ log' = Append(log, Ev(c, "write:flags", 0))
       ELSE /\ ctx' = [ctx EXCEPT ![c].pc = "pdeathsig"]
            /\ UNCHANGED <<data, log>>
    /\ UNCHANGED <<args, conv, exc, cpc, errno, childprocess, waitpid_result,
                   result, failed>>

\* Lines 403-407: setsid().
T_SetsidCall(c) ==
    /\ Running(c) /\ ctx[c].pc = "setsid_call"
    /\ \/ /\ ctx' = [ctx EXCEPT ![c].session = TRUE, ![c].pc = "pdeathsig"]
          /\ log' = Append(log, Ev(c, "setsid", 0))
          /\ UNCHANGED <<errno, failed>>
       \/ \E e \in Errnos : SysFail(c, "setsid", e, <<Ev(c, "setsid", 0 - e)>>)
    /\ UNCHANGED <<args, conv, exc, cpc, data, childprocess, waitpid_result,
                   result>>

\* Lines 410-412: read parent_signal and clear it in the descriptor.
T_PdeathsigTest(c) ==
    /\ Running(c) /\ ctx[c].pc = "pdeathsig"
    /\ IF data.parent_signal >= 0
       THEN /\ data' = [data EXCEPT !.parent_signal = 0]
            /\ ctx' = [ctx EXCEPT ![c].parent_signal = data.parent_signal,
                                  ![c].pc = "prctl_call"]
            /\ log' = Append(log, Ev(c, "write:parent_signal", 0))
       ELSE /\ ctx' = [ctx EXCEPT ![c].parent_signal = data.parent_signal,
                                  ![c].pc = "doublefork"]
            /\ UNCHANGED <<data, log>>
    /\ UNCHANGED <<args, conv, exc, cpc, errno, childprocess, waitpid_result,
                   result, failed>>

\* prctl(PR_SET_PDEATHSIG, sig) fails, with EINVAL, exactly when sig is not
\* a signal number of the kernel (0 .. _NSIG - 1).
PrctlFails(sig) == sig > NSIG - 1

\* Lines 413-417: prctl(PR_SET_PDEATHSIG, parent_signal).
T_PrctlCall(c) ==
    /\ Running(c) /\ ctx[c].pc = "prctl_call"
    /\ LET ev == Ev(c, "prctl", ctx[c].parent_signal)
       IN  IF ~PrctlFails(ctx[c].parent_signal)
           THEN /\ ctx' = [ctx EXCEPT ![c].pdeathsig = ctx[c].parent_signal,
                                      ![c].pc = "doublefork"]
                /\ log' = Append(log, ev)
                /\ UNCHANGED <<errno, failed>>
           ELSE SysFail(c, "PR_SET_PDEATHSIG", EINVAL, <<ev>>)
    /\ UNCHANGED <<args, conv, exc, cpc, data, childprocess, waitpid_result,
                   result>>

\* Lines 420-421: test and clear ETD_DOUBLEFORK.
T_DoubleforkTest(c) ==
    /\ Running(c) /\ ctx[c].pc = "doublefork"
    /\ IF "DOUBLEFORK" \in data.flags
       THEN /\ data' = [data EXCEPT !.flags = @ \ {"DOUBLEFORK"}]
            /\ ctx' = [ctx EXCEPT ![c].pc = "clone_call"]
            /\ log' = Append(log, Ev(c, "write:flags", 0))
       ELSE /\ ctx' = [ctx EXCEPT ![c].pc = "sigign"]
            /\ UNCHANGED <<data, log>>
    /\ UNCHANGED <<args, conv, exc, cpc, errno, childprocess, waitpid_result,
                   result, failed>>

\* A faulty DoubleforkFun: the test of childprocess is missing.
DoubleforkFun_NoTest(child, fun) == "clone(doublefork)"

\* Lines 424-426: fun after clone returned childprocess.
DoubleforkFun(child, fun) == IF child < 0 THEN "clone(doublefork)" ELSE fun

\* Lines 422-426: clone(exec_trampoline, ..., CLONE_VFORK | CLONE_VM, data).
\* On success the new context n runs the trampoline and c is suspended.
T_CloneCall(c) ==
    /\ Running(c) /\ ctx[c].pc = "clone_call"
    /\ \/ \E n \in Ctx :
            /\ ctx[n].life = "none"
            /\ ctx' = [ctx EXCEPT ![n] = NewCtx, ![c].pc = "in_clone"]
            /\ log' = Append(log, Ev(c, "clone", Pid(n)))
            /\ UNCHANGED <<errno, failed>>
       \/ \E e \in Errnos :
            SysFail(c, DoubleforkFun(-1, ctx[c].fun), e,
                    <<Ev(c, "clone", 0 - e)>>)
    /\ UNCHANGED <<args, conv, exc, cpc, data, childprocess, waitpid_result,
                   result>>

\* Line 427: clone returned in c once the created context released the
\* address space; goto fail with fun still NULL.
T_CloneReturn(c) ==
    /\ Running(c) /\ ctx[c].pc = "in_clone"
    /\ \A n \in Ctx : ctx[n].life # "running" \/ n = c
    /\ ctx' = [ctx EXCEPT ![c].fun = DoubleforkFun(Pid("nested"), @),
                          ![c].pc = "fail"]
    /\ UNCHANGED <<args, conv, exc, cpc, data, errno, childprocess,
                   waitpid_result, result, failed, log>>

\* Lines 430-433: read the mask and clear it in the descriptor.
T_SigignTest(c) ==
    /\ Running(c) /\ ctx[c].pc = "sigign"
    /\ IF data.sigign # {}
       THEN /\ data' = [data EXCEPT !.sigign = {}]
            /\ ctx' = [ctx EXCEPT ![c].sigign = data.sigign, ![c].signum = 0,
                                  ![c].pc = "sigign_loop"]
            /\ log' = Append(log, Ev(c, "write:sigign", 0))
       ELSE /\ ctx' = [ctx EXCEPT ![c].sigign = data.sigign, ![c].pc = "getpid"]
            /\ UNCHANGED <<data, log>>
    /\ UNCHANGED <<args, conv, exc, cpc, errno, childprocess, waitpid_result,
                   result, failed>>

\* sigign >>= 1 on a uint64_t.
ShiftRight1(m) == {b - 1 : b \in m \ {0}}

\* A faulty SkipSignal: SIGSTOP is not exempted.
SkipSignal_NoStop(has, signum) == ~has \/ (signum = SIGKILL)

\* Line 439: the iteration makes no signal() call.
SkipSignal(has, signum) == ~has \/ (signum = SIGKILL) \/ (signum = SIGSTOP)

\* Lines 434-448: one iteration of the do-while loop, with its signal() call
\* and the loop condition.
T_SigignIter(c) ==
    /\ Running(c) /\ ctx[c].pc = "sigign_loop"
    /\ LET has == 0 \in ctx[c].sigign
           rest == ShiftRight1(ctx[c].sigign)
           signum == ctx[c].signum + 1
           next == IF rest # {} THEN "sigign_loop" ELSE "getpid"
       IN  IF SkipSignal(has, signum)
           THEN /\ ctx' = [ctx EXCEPT ![c].sigign = rest, ![c].signum = signum,
                                      ![c].pc = next]
                /\ UNCHANGED <<errno, failed, log>>
           ELSE \/ /\ ctx' = [ctx EXCEPT ![c].sigign = rest,
                                         ![c].signum = signum,
                                         ![c].attempted = @ \cup {signum},
                                         ![c].ignored = @ \cup {signum},
                                         ![c].pc = next]
                   /\ log' = Append(log, Ev(c, "signal", signum))
                   /\ UNCHANGED <<errno, failed>>
                \/ \E e \in Errnos :
                     /\ errno' = e
                     /\ ctx' = [ctx EXCEPT ![c].sigign = rest,
                                           ![c].signum = signum,
                                           ![c].attempted = @ \cup {signum},
                                           ![c].fun = "signal",
                                           ![c].pc = "fail"]
                     /\ failed' = IF failed.step = "NULL"
                                  THEN [step |-> "signal", code |-> e]
                                  ELSE failed
                     /\ log' = Append(log, Ev(c, "signal", signum))
    /\ UNCHANGED <<args, conv, exc, cpc, data, childprocess, waitpid_result,
                   result>>

\* A faulty T_Getpid: data->childpid is not written before the exec.
T_Getpid_Skip(c) ==
    /\ Running(c) /\ ctx[c].pc = "getpid"
    /\ ctx' = [ctx EXCEPT ![c].pc = "exec"]
    /\ UNCHANGED <<args, conv, exc, cpc, data, errno, childprocess,
                   waitpid_result, result, failed, log>>

\* Line 451: data->childpid = getpid().
T_Getpid(c) ==
    /\ Running(c) /\ ctx[c].pc = "getpid"
    /\ data' = [data EXCEPT !.childpid = Pid(c)]
    /\ ctx' = [ctx EXCEPT ![c].pc = "exec"]
    /\ log' = Append(log, Ev(c, "write:childpid", Pid(c)))
    /\ UNCHANGED <<args, conv, exc, cpc, errno, childprocess, waitpid_result,
                   result, failed>>

\* A faulty ExecVariant: the PATH-searching calls are swapped.
ExecVariant_Swapped(envp, flags) ==
    IF envp
    THEN IF "SEARCH_PATH" \in flags THEN "execve" ELSE "execvpe"
    ELSE IF "SEARCH_PATH" \in flags THEN "execv" ELSE "execvp"

\* Lines 453-469: the execute variant called.
ExecVariant(envp, flags) ==
    IF envp
    THEN IF "SEARCH_PATH" \in flags THEN "execvpe" ELSE "execve"
    ELSE IF "SEARCH_PATH" \in flags THEN "execvp" ELSE "execv"

\* Lines 453-469: image replacement.  On success the context leaves the
\* shared address space for good; on failure fun names the variant.
T_Exec(c) ==
    /\ Running(c) /\ ctx[c].pc = "exec"
    /\ LET v == ExecVariant(data.envp, data.flags)
       IN  \/ /\ ctx' = [ctx EXCEPT ![c].variant = v, ![c].life = "execd",
                                    ![c].pc = "image"]
              /\ log' = Append(log, Ev(c, v, 0))
              /\ UNCHANGED <<errno, failed>>
           \/ \E e \in Errnos :
                /\ errno' = e
                /\ ctx' = [ctx EXCEPT ![c].variant = v, ![c].fun = v,
                                      ![c].pc = "fail"]
                /\ failed' = IF failed.step = "NULL"
                             THEN [step |-> v, code |-> e] ELSE failed
                /\ log' = Append(log, Ev(c, v, 0 - e))
    /\ UNCHANGED <<args, conv, exc, cpc, data, childprocess, waitpid_result,
                   result>>

\* A faulty T_Fail: raise(SIGKILL) is missing and the trampoline returns -1.
T_Fail_Returns(c) ==
    /\ Running(c) /\ ctx[c].pc = "fail"
    /\ data' = [data EXCEPT !.fun = ctx[c].fun, !.error = errno]
    /\ ctx' = [ctx EXCEPT ![c].pc = "returned"]
    /\ log' = log \o <<EvS(c, "write:fun", ctx[c].fun), Ev(c, "write:error", errno)>>
    /\ UNCHANGED <<args, conv, exc, cpc, errno, childprocess, waitpid_result,
                   result, failed>>

\* Lines 471-474: fail: publish fun and errno, then raise(SIGKILL).
T_Fail(c) ==
    /\ Running(c) /\ ctx[c].pc = "fail"
    /\ data' = [data EXCEPT !.fun = ctx[c].fun, !.error = errno]
    /\ ctx' = [ctx EXCEPT ![c].life = "dying", ![c].pc = "killed"]
    /\ log' = log \o <<EvS(c, "write:fun", ctx[c].fun), Ev(c, "write:error", errno),
                       Ev(c, "raise", SIGKILL)>>
    /\ UNCHANGED <<args, conv, exc, cpc, errno, childprocess, waitpid_result,
                   result, failed>>

(***************************************************************************)
(* The caller: cloneandexecve_impl after argument parsing.                 *)
(***************************************************************************)
\* Lines 532-545: the initializer of trampoline_data.
TrampolineData(a, cv) ==
    [envp |-> a.env,
     flags |-> (IF a.search_path THEN {"SEARCH_PATH"} ELSE {})
               \cup (IF a.setsid THEN {"SETSID"} ELSE {})
               \cup (IF a.doublefork THEN {"DOUBLEFORK"} ELSE {}),
     parent_signal |-> cv.signal,
     sigign |-> cv.sigign,
     childpid |-> -1, fun |-> "NULL", error |-> -1]

\* Lines 530-555: build the descriptor and clone with CLONE_VFORK | CLONE_VM
\* (| CLONE_PARENT for a sibling).  A failed clone raises at once.
C_Clone ==
    /\ cpc = "clone"
    /\ data' = TrampolineData(args, conv)
    /\ \/ /\ ctx' = [ctx EXCEPT !["first"] = NewCtx]
          /\ cpc' = "in_clone"
          /\ log' = Append(log, Ev("caller", "clone", Pid("first")))
          /\ UNCHANGED <<errno, exc, result, childprocess>>
       \/ \E e \in Errnos :
            /\ errno' = e
            /\ childprocess' = -1
            /\ exc' = [kind |-> "Exception", fun |-> "clone", code |-> e]
            /\ result' = [kind |-> "NULL", val |-> 0]
            /\ cpc' = "returned"
            /\ log' = Append(log, Ev("caller", "clone", 0 - e))
            /\ UNCHANGED ctx
    /\ UNCHANGED <<args, conv, waitpid_result, failed>>

\* A faulty C_CloneReturn: clone without CLONE_VFORK, the caller is not
\* suspended while the created context runs.
C_CloneReturn_NoVfork ==
    /\ cpc = "in_clone"
    /\ childprocess' = Pid("first")
    /\ cpc' = "wait1"
    /\ UNCHANGED <<args, conv, exc, data, errno, ctx, waitpid_result, result,
                   failed, log>>

\* Line 550: clone returns in the caller once the created context has
\* replaced its image or released the address space by dying.
C_CloneReturn ==
    /\ cpc = "in_clone"
    /\ ctx["first"].life # "running"
    /\ childprocess' = Pid("first")
    /\ cpc' = "wait1"
    /\ UNCHANGED <<args, conv, exc, data, errno, ctx, waitpid_result, result,
                   failed, log>>

\* waitpid(childprocess, NULL, WNOHANG) for a process in state life: -1 when
\* it is not a child of the caller (CLONE_PARENT) or was reaped already, its
\* pid when it is a zombie, 0 while it has not become one.
WaitOutcome(life, sibling, pid) ==
    IF sibling \/ life = "reaped" THEN -1
    ELSE IF life = "zombie" THEN pid
    ELSE 0

\* waitpid(...) > 0, as stored in waitpid_result.  The log keeps the state
\* the kernel found the process in.
Poll ==
    LET r == WaitOutcome(ctx["first"].life, args.sibling, childprocess)
    IN  /\ waitpid_result' = IF r > 0 THEN 1 ELSE 0
        /\ ctx' = IF r > 0 THEN [ctx EXCEPT !["first"].life = "reaped"] ELSE ctx
        /\ errno' = IF r < 0 THEN ECHILD ELSE errno
        /\ log' = log \o <<Ev("kernel", ctx["first"].life, childprocess),
                           Ev("caller", "waitpid", r)>>

\* Line 557.
C_Wait1 ==
    /\ cpc = "wait1"
    /\ Poll
    /\ cpc' = "check"
    /\ UNCHANGED <<args, conv, exc, data, childprocess, result, failed>>

\* Line 558: whether to poll a second time.
SecondPoll(childpid, child) == (childpid >= 0) /\ (childpid # child)

C_Check ==
    /\ cpc = "check"
    /\ cpc' = IF SecondPoll(data.childpid, childprocess) THEN "wait2"
              ELSE "readfun"
    /\ log' = Append(log, Ev("caller", "read:childpid", data.childpid))
    /\ UNCHANGED <<args, conv, exc, data, errno, ctx, childprocess,
                   waitpid_result, result, failed>>

\* Line 559.
C_Wait2 ==
    /\ cpc = "wait2"
    /\ Poll
    /\ cpc' = "readfun"
    /\ UNCHANGED <<args, conv, exc, data, childprocess, result, failed>>

\* Lines 570-579: the value returned when no step is reported failed.
ReturnValue(wres, childpid) ==
    IF wres = 0 THEN [kind |-> "int", val |-> childpid]
    ELSE [kind |-> "None", val |-> 0]

\* Lines 562-579: raise OSError when fun is set, else return.
C_Finish ==
    /\ cpc = "readfun"
    /\ IF data.fun # "NULL"
       THEN /\ exc' = [kind |-> "OSError", fun |-> data.fun, code |-> data.error]
            /\ result' = [kind |-> "NULL", val |-> 0]
            /\ log' = log \o <<Ev("caller", "read:fun", 0),
                               Ev("caller", "read:error", data.error)>>
       ELSE /\ result' = ReturnValue(waitpid_result, data.childpid)
            /\ log' = log \o <<Ev("caller", "read:fun", 0),
                               Ev("caller", "read:childpid", data.childpid)>>
            /\ UNCHANGED exc
    /\ cpc' = "returned"
    /\ UNCHANGED <<args, conv, data, errno, ctx, childprocess, waitpid_result,
                   failed>>

(***************************************************************************)
(* The kernel and the executed program.                                    *)
(***************************************************************************)
\* A killed or exited process becomes a zombie some time after it released
\* its address space.
E_Zombie(c) ==
    /\ ctx[c].life = "dying"
    /\ ctx' = [ctx EXCEPT ![c].life = "zombie"]
    /\ UNCHANGED <<args, conv, exc, cpc, data, errno, childprocess,
                   waitpid_result, result, failed, log>>

\* The executed program exits.
E_ProgramExit(c) ==
    /\ ctx[c].life = "execd"
    /\ ctx' = [ctx EXCEPT ![c].life = "dying"]
    /\ UNCHANGED <<args, conv, exc, cpc, data, errno, childprocess,
                   waitpid_result, result, failed, log>>

Trampoline(c) ==
    \/ T_SetsidTest(c) \/ T_SetsidCall(c)
    \/ T_PdeathsigTest(c) \/ T_PrctlCall(c)
    \/ T_DoubleforkTest(c) \/ T_CloneCall(c) \/ T_CloneReturn(c)
    \/ T_SigignTest(c) \/ T_SigignIter(c)
    \/ T_Getpid(c) \/ T_Exec(c) \/ T_Fail(c)

Init == InitWith(SpawnArgs)

Next ==
    \/ ParseArgs
    \/ C_Clone \/ C_CloneReturn \/ C_Wait1 \/ C_Check \/ C_Wait2 \/ C_Finish
    \/ \E c \in Ctx : Trampoline(c)
    \/ \E c \in Ctx : E_Zombie(c) \/ E_ProgramExit(c)

Spec == Init /\ [][Next]_vars

\* Calls explored under fairness: every flag combination, with short masks.
LiveSigigns ==
    {Absent, PyBool(TRUE), PyIntBits(FALSE, {SIGKILL - 1, SIGSTOP - 1}),
     PySeq(<<PyLong(2), PyLong(SIGKILL)>>)}

LiveArgs == {a \in SpawnArgs : a.sigign \in LiveSigigns}

InitLive == InitWith(LiveArgs)

\* The kernel schedules every runnable context: a trampoline step that stays
\* possible is eventually taken.
FairSpec == InitLive /\ [][Next]_vars /\ \A c \in Ctx : WF_vars(Trampoline(c))

(***************************************************************************)
(* Properties.                                                             *)
(***************************************************************************)
Replaced(c) == ctx[c].pc = "image"

Events == {log[i] : i \in DOMAIN log}

\* The integer a Python int object denotes (saturating like Magnitude).
IntVal(o) == IF o.neg THEN 0 - Magnitude(o.bits) ELSE Magnitude(o.bits)

OutOfRange(o) == o.t = "int" /\ (IntVal(o) < 0 \/ IntVal(o) > NSIG)

\* C1: for a requested parent-death signal s >= 1, the context that replaced
\* its image has s armed: the last PR_SET_PDEATHSIG request it made is s.
C1_ExecContextArmed ==
    \A c \in Ctx :
        (Replaced(c) /\ conv.signal >= 1) => ctx[c].pdeathsig = conv.signal

\* C2: when a trampoline step failed in any context, the descriptor names the
\* first failed step when the caller reads it, and the call raises an error
\* naming that step and its error code instead of returning a value.
C2_FirstFailureReported ==
    (failed.step # "NULL") =>
        /\ (cpc = "readfun" => data.fun = failed.step)
        /\ (cpc = "returned" =>
                /\ result.kind = "NULL"
                /\ exc.kind = "OSError"
                /\ exc.fun = failed.step
                /\ exc.code = failed.code)

\* A poll of the caller found the immediately created process terminated.
TerminatedAtPoll ==
    \E e \in Events : e.who = "kernel" /\ e.op \in {"zombie", "reaped"}

\* C3: when no trampoline step failed, the call returns None if and only if
\* the immediately created process had terminated when the caller polled it,
\* and result_pid otherwise.
C3_NoneIffImmediateTerminated ==
    (cpc = "returned" /\ failed.step = "NULL" /\ result.kind \in {"int", "None"}) =>
        /\ (result.kind = "None") <=> TerminatedAtPoll
        /\ (result.kind = "int" => result.val = data.childpid)

\* C4: a doublefork call whose nested clone and image replacement succeeded
\* returns None, never a process id.
C4_DoubleforkReturnsNone ==
    (cpc = "returned" /\ args.doublefork /\ Replaced("nested")) =>
        result.kind = "None"

\* The execute variant the caller's arguments ask for.
RequestedVariant ==
    CASE args.env /\ args.search_path -> "execvpe"
      [] args.env /\ ~args.search_path -> "execve"
      [] ~args.env /\ args.search_path -> "execvp"
      [] OTHER -> "execv"

\* C5: the execute variant a context invokes is the one the caller's env and
\* search_path arguments determine, in the nested pass as well; when the call
\* fails, the context records that variant's name as the failed step and the
\* error code of that call as the failure code.
C5_ExecVariant ==
    /\ \A c \in Ctx : ctx[c].variant # "none" => ctx[c].variant = RequestedVariant
    /\ \A i \in DOMAIN log :
          (log[i].op = "write:fun" /\ ctx[log[i].who].variant # "none") =>
              /\ log[i].str = RequestedVariant
              /\ log[i - 1].who = log[i].who
              /\ log[i - 1].op = RequestedVariant
              /\ log[i + 1].op = "write:error"
              /\ log[i + 1].arg = 0 - log[i - 1].arg
    /\ \A c \in Ctx :
          (ctx[c].variant # "none" /\ log # <<>> /\ log[Len(log)] = Ev(c, "raise", SIGKILL)) =>
              /\ data.fun = RequestedVariant
              /\ data.error = 0 - log[Len(log) - 3].arg

C5_Witness ==
    /\ args.doublefork /\ args.search_path /\ args.env
    /\ ctx["nested"].pc = "killed"
    /\ ctx["nested"].variant = "execvpe"
    /\ \E e \in Events : e.who = "nested" /\ e.op = "write:fun" /\ e.str = "execvpe"

\* The signals a mask asks to ignore, without the two that cannot be.
Ignorable(m) == {b + 1 : b \in m} \ {SIGKILL, SIGSTOP}

LoopDone(c) == ctx[c].pc \in {"getpid", "exec", "image"}

InLoop(c) == ctx[c].pc = "sigign_loop" \/ (ctx[c].pc \in {"fail", "killed"} /\ ctx[c].fun = "signal")

\* C6: the signal() calls a context makes are exactly those for the set bits
\* of the mask, in ascending order, without SIGKILL and SIGSTOP; none is made
\* for those two and they cause no failure; when the loop ends every other
\* set bit has been applied; the loop consumes one bit per iteration and ends
\* after at most 64 of them.
C6_SignalIgnoreLoop ==
    \A c \in Ctx :
        /\ ctx[c].attempted = {s \in Ignorable(conv.sigign) : s <= ctx[c].signum}
        /\ ctx[c].ignored \subseteq ctx[c].attempted
        /\ ctx[c].signum <= LongBits
        /\ InLoop(c) =>
              ctx[c].sigign = {b - ctx[c].signum : b \in {x \in conv.sigign : x >= ctx[c].signum}}
        /\ (ctx[c].pc \in {"fail", "killed"} /\ ctx[c].fun = "signal") =>
              /\ ctx[c].signum \notin {SIGKILL, SIGSTOP}
              /\ ctx[c].attempted \ ctx[c].ignored = {ctx[c].signum}
        /\ (LoopDone(c) \/ ctx[c].fun \in {"execv", "execve", "execvp", "execvpe"}) =>
              /\ ctx[c].ignored = Ignorable(conv.sigign)
              /\ ctx[c].sigign = {}

C6_Witness ==
    \E c \in Ctx :
        /\ conv.sigign = Bits64
        /\ ctx[c].pc = "exec"
        /\ ctx[c].signum = LongBits
        /\ ctx[c].ignored = (1 .. LongBits) \ {SIGKILL, SIGSTOP}

\* The converters ran to the end without an error.
Converted == cpc = "clone"

EmptyInputs == {Absent, PyNone, PyBool(FALSE)}

\* C7 as stated: True converts to the full mask, False or an absent value to
\* the empty mask.
C7_TrueIsFullMask ==
    Converted =>
        /\ (args.sigign = PyBool(TRUE) => conv.sigign = Bits64)
        /\ (args.sigign \in EmptyInputs => conv.sigign = {})

\* C7, amended: True is converted as the integer 1, the mask with bit 0 alone
\* (signal 1); False or an absent value converts to the empty mask.
C7_TrueIsMaskOne ==
    /\ (cpc # "parse" /\ args.sigign = PyBool(TRUE) /\ args.signal = Absent) =>
          Converted
    /\ Converted =>
          /\ (args.sigign = PyBool(TRUE) => conv.sigign = {0})
          /\ (args.sigign \in EmptyInputs => conv.sigign = {})

C7_Witness == Converted /\ args.sigign = PyBool(TRUE) /\ conv.sigign = {0}

\* C8: for a sequence of signal numbers in 0 .. _NSIG the mask has bit n - 1
\* set if and only if n is a nonzero element of the sequence.
C8_EncodeExactBits ==
    (Converted /\ args.sigign.t = "seq") =>
        \A n \in 1 .. NSIG :
            ((n - 1) \in conv.sigign) <=>
                (\E i \in DOMAIN args.sigign.elems : IntVal(args.sigign.elems[i]) = n)

\* C9: a signal number below 0 or above _NSIG, as the death signal or as an
\* element of the ignore sequence, fails the conversion with OverflowError
\* pending and leaves no value; 0 is accepted and sets no bit.
C9_OutOfRangeRaises ==
    cpc # "parse" =>
        /\ OutOfRange(args.signal) =>
              (cpc = "returned" /\ exc.kind = "OverflowError" /\ conv.signal = -1)
        /\ (~OutOfRange(args.signal) /\ args.signal.t \in {"int", "absent"}
            /\ args.sigign.t = "seq"
            /\ (\A i \in DOMAIN args.sigign.elems : args.sigign.elems[i].t = "int")
            /\ (\E i \in DOMAIN args.sigign.elems : OutOfRange(args.sigign.elems[i]))) =>
              (cpc = "returned" /\ exc.kind = "OverflowError" /\ conv.sigign = {})
        /\ args.signal = PyLong(0) => conv.signal = 0
        /\ (Converted /\ args.sigign.t = "seq"
            /\ \A i \in DOMAIN args.sigign.elems : args.sigign.elems[i] = PyLong(0)) =>
              conv.sigign = {}

\* Every context the call created has replaced its image or died.
AllCompleted ==
    /\ ctx["first"].life \notin {"none", "running"}
    /\ ctx["nested"].life # "running"

\* C10: once every context of the call has completed, a context having
\* replaced its image and failed_step being set exclude each other.
C10_ReplacedOrFailed ==
    AllCompleted => ~((\E c \in Ctx : Replaced(c)) /\ data.fun # "NULL")

C10_Witness ==
    /\ AllCompleted /\ args.doublefork
    /\ Replaced("nested")
    /\ ctx["first"].pc = "killed"
    /\ data.fun = "NULL"

\* The events of context c, in order.
CtxLog(c) == SelectSeq(log, LAMBDA e : e.who = c)

EndedByExec(c) ==
    /\ ctx[c].pc = "image"
    /\ CtxLog(c)[Len(CtxLog(c))] = Ev(c, ctx[c].variant, 0)

EndedByKill(c) ==
    LET l == CtxLog(c)
        n == Len(l)
    IN  /\ ctx[c].pc = "killed"
        /\ n >= 3
        /\ l[n - 2].op = "write:fun"
        /\ l[n - 1].op = "write:error"
        /\ l[n] = Ev(c, "raise", SIGKILL)

TrampolinePcs ==
    {"setsid", "setsid_call", "pdeathsig", "prctl_call", "doublefork",
     "clone_call", "in_clone", "sigign", "sigign_loop", "getpid", "exec", "fail"}

\* C11: every execution of the trampoline, in the first, the middle and the
\* nested context, eventually ends, and ends in exactly one of two ways: by a
\* successful image replacement, or by raise(SIGKILL) right after writing fun
\* and error; while it runs it is at a step of the trampoline, never back in
\* its caller.
C11_TrampolineEnds ==
    /\ [](\A c \in Ctx :
            /\ ctx[c].life = "running" => ctx[c].pc \in TrampolinePcs
            /\ ctx[c].life \notin {"none", "running"} =>
                  (EndedByExec(c) /\ ~EndedByKill(c)) \/ (EndedByKill(c) /\ ~EndedByExec(c)))
    /\ \A c \in Ctx : (ctx[c].life = "running") ~> (ctx[c].life \notin {"none", "running"})

C11_Witness ==
    /\ args.doublefork
    /\ EndedByKill("first")
    /\ EndedByExec("nested")

\* The caller's own create call (line 546) failed.
CallerCloneFailed ==
    \E e \in Events : e.who = "caller" /\ e.op = "clone" /\ e.arg < 0

CallerTouchedResult ==
    \E e \in Events :
        e.who = "caller" /\ e.op \in {"waitpid", "read:childpid", "read:fun", "read:error"}

\* C12: when the caller's create call fails, the call raises at once with the
\* OSError kind, having made no wait poll and read no result field of the
\* descriptor.
C12_CloneFailureIsOSError ==
    (cpc = "returned" /\ CallerCloneFailed) =>
        /\ result.kind = "NULL"
        /\ exc.kind = "OSError"
        /\ ~CallerTouchedResult

ExecOps == {"execve", "execvpe", "execv", "execvp"}

\* The position of an event in the trampoline's step order (0: not a step).
Rank(e) ==
    CASE e.op = "setsid" -> 1
      [] e.op = "prctl" -> 2
      [] e.op = "clone" -> 3
      [] e.op = "signal" -> 4
      [] e.op = "write:childpid" -> 5
      [] e.op \in ExecOps -> 6
      [] e.op \in {"write:fun", "write:error", "raise"} -> 7
      [] OTHER -> 0

\* The steps and terminal writes of context c, in order.
StepLog(c) == SelectSeq(CtxLog(c), LAMBDA e : Rank(e) > 0)

\* Steps occur in rank order; only signal() calls and the writes of the fail
\* block repeat a rank.
InOrder(l) ==
    \A i \in 1..(Len(l) - 1) :
        \/ Rank(l[i]) < Rank(l[i + 1])
        \/ Rank(l[i]) = Rank(l[i + 1]) /\ Rank(l[i]) \in {4, 7}

StepsInOrder(c) == InOrder(StepLog(c))

\* Every exec attempt directly follows the write of the context's own pid.
PidWritten(l, c) ==
    \A j \in DOMAIN l :
        Rank(l[j]) = 6 => j > 1 /\ l[j - 1] = Ev(c, "write:childpid", Pid(c))

PidWriteBeforeExec(c) == PidWritten(StepLog(c), c)

\* C13 (as stated): steps occur in the fixed order, and the childpid write
\* precedes every exec attempt and every write of fun by the fail block.
C13_PidWriteBeforeEveryFailure ==
    /\ \A c \in Ctx : StepsInOrder(c) /\ PidWriteBeforeExec(c)
    /\ \A j \in DOMAIN log :
           log[j].op = "write:fun" =>
               \E i \in 1..(j - 1) : log[i].op = "write:childpid"

\* C13 (amended): in every context the steps occur in the fixed order setsid,
\* prctl, clone, signal()..., childpid write, exec, fail-block writes; the
\* childpid write, with the context's own pid, precedes every exec attempt,
\* and never follows a fail-block write of the same context.
C13_FixedStepOrder ==
    \A c \in Ctx : StepsInOrder(c) /\ PidWriteBeforeExec(c)

C13_Witness ==
    /\ \E i \in DOMAIN StepLog("first") : Rank(StepLog("first")[i]) = 1
    /\ \E i \in DOMAIN StepLog("first") : Rank(StepLog("first")[i]) = 2
    /\ \E i \in DOMAIN StepLog("first") : Rank(StepLog("first")[i]) = 3
    /\ Len(StepLog("nested")) >= 6
    /\ StepLog("nested")[Len(StepLog("nested")) - 2].op = "write:fun"
    /\ StepLog("nested")[Len(StepLog("nested")) - 3].op \in ExecOps
    /\ StepLog("nested")[Len(StepLog("nested")) - 4].op = "write:childpid"
    /\ StepLog("nested")[Len(StepLog("nested")) - 5].op = "signal"

\* The number of events of the call, by any context, with operation op.
Count(op) == Cardinality({i \in DOMAIN log : log[i].who \in Ctx /\ log[i].op = op})

\* C14: under doublefork each of setsid, the PR_SET_PDEATHSIG request and the
\* nested clone is executed at most once per call, and the nested pass makes
\* none of them (no prctl with any value, including 0).
C14_NestedSkipsConsumedSteps ==
    args.doublefork =>
        /\ Count("setsid") <= 1 /\ Count("prctl") <= 1 /\ Count("clone") <= 1
        /\ \A e \in Events :
               e.who = "nested" => e.op \notin {"setsid", "prctl", "clone"}

\* The middle context's nested clone call (line 421) was made / failed.
NestedCloneMade == \E e \in Events : e.who = "first" /\ e.op = "clone"

NestedCloneFailed ==
    \E e \in Events : e.who = "first" /\ e.op = "clone" /\ e.arg < 0

\* C15: under doublefork the middle context never calls signal(), never
\* writes childpid and never attempts an exec; once its clone call has
\* returned it kills itself, whether the clone succeeded or not, and the fun
\* it leaves in the descriptor is "clone(doublefork)" if and only if that
\* clone failed, and NULL otherwise, whatever the nested context's exec did.
C15_MiddleForwardsClone ==
    args.doublefork =>
        /\ \A e \in Events :
               e.who = "first" =>
                   e.op \notin ({"signal", "write:childpid"} \cup ExecOps)
        /\ ~Replaced("first")
        /\ (NestedCloneMade /\ ctx["first"].life # "running") =>
               /\ EndedByKill("first")
               /\ ctx["nested"].life # "running"
               /\ data.fun = IF NestedCloneFailed THEN "clone(doublefork)"
                             ELSE "NULL"
        /\ \A e \in Events :
               (e.who = "first" /\ e.op = "write:fun") =>
                   (e.str = "clone(doublefork)" <=> NestedCloneFailed)

C15_Witness ==
    /\ args.doublefork
    /\ EndedByKill("first")
    /\ NestedCloneMade /\ ~NestedCloneFailed
    /\ failed.step \in ExecOps
    /\ data.fun = "NULL"

\* Event e is a write to a field of the shared descriptor by a context.
IsWrite(e) ==
    /\ e.who \in Ctx
    /\ e.op \in {"write:flags", "write:parent_signal", "write:sigign",
                 "write:childpid", "write:fun", "write:error"}

\* Event e is a successful exec.
IsExec(e) == e.who \in Ctx /\ e.op \in ExecOps /\ e.arg = 0

\* C16: once any context of the call has replaced its image, no context
\* writes any field of the shared descriptor any more.
C16_NoWriteAfterExec ==
    \A j \in DOMAIN log :
        IsWrite(log[j]) => ~\E i \in 1..(j - 1) : IsExec(log[i])

\* C17: whenever a context is about to call setsid, prctl, the nested clone
\* or the first signal(), the descriptor field that guards the step has been
\* cleared, so that the test of that step (lines 401, 411, 420, 431), made
\* on the descriptor at that moment, finds the step consumed.
C17_TriggerConsumedBeforeStep ==
    \A c \in Ctx :
        Running(c) =>
            /\ ctx[c].pc = "setsid_call" => "SETSID" \notin data.flags
            /\ ctx[c].pc = "prctl_call" => ~(data.parent_signal >= 0)
            /\ ctx[c].pc = "clone_call" => "DOUBLEFORK" \notin data.flags
            /\ ctx[c].pc = "sigign_loop" => data.sigign = {}

\* The part of C17 that the code keeps: the fields are cleared (to 0) before
\* the step is performed.
TriggerClearedBeforeStep ==
    \A c \in Ctx :
        Running(c) =>
            /\ ctx[c].pc = "setsid_call" => "SETSID" \notin data.flags
            /\ ctx[c].pc = "prctl_call" => data.parent_signal = 0
            /\ ctx[c].pc = "clone_call" => "DOUBLEFORK" \notin data.flags
            /\ ctx[c].pc = "sigign_loop" => data.sigign = {}

\* Event e is a read of a result field of the descriptor by the caller.
IsRead(e) ==
    e.who = "caller" /\ e.op \in {"read:childpid", "read:fun", "read:error"}

\* C18: every write to the descriptor by a trampoline context precedes the
\* caller's first read of childpid, fun or error, and from the return of the
\* caller's clone on, through all its polls and reads, no context runs.
C18_WritesBeforeReads ==
    /\ \A j \in DOMAIN log :
           IsWrite(log[j]) => ~\E i \in 1..(j - 1) : IsRead(log[i])
    /\ cpc \in {"wait1", "check", "wait2", "readfun"} =>
           \A c \in Ctx : ~Running(c)
    /\ (\E e \in Events : IsRead(e)) => \A c \in Ctx : ~Running(c)

C18_Witness ==
    /\ args.doublefork
    /\ cpc = "returned"
    /\ \E e \in Events : IsWrite(e) /\ e.who = "first" /\ e.op = "write:fun"
    /\ \E e \in Events : IsWrite(e) /\ e.who = "nested"
    /\ \E e \in Events : IsRead(e) /\ e.op = "read:fun"

\* C19: an integer returned by the call is the pid of a context that
\* replaced its image; it is never the initial -1 of childpid and never the
\* pid of a context whose setup or exec failed.
C19_ReturnedPidExeced ==
    (cpc = "returned" /\ result.kind = "int") =>
        /\ result.val # -1
        /\ \E c \in Ctx :
               /\ result.val = Pid(c)
               /\ \E e \in Events : IsExec(e) /\ e.who = c

\* The same statement for calls without doublefork.
ReturnedPidExecedSingle == args.doublefork \/ C19_ReturnedPidExeced

\* The returned integer is the initial value of childpid.
ReturnedSentinel == cpc = "returned" /\ result.kind = "int" /\ result.val = -1

NonExecSteps == {"setsid", "PR_SET_PDEATHSIG", "clone(doublefork)", "signal"}

\* Context c has written its pid to childpid.
WrotePid(c) == Ev(c, "write:childpid", Pid(c)) \in Events

\* A session is inherited across clone: setsid succeeded in some context.
Detached == \E e \in Events : e.who \in Ctx /\ e.op = "setsid" /\ e.arg = 0

\* When fun is written with the name of a step before line 451, childpid has
\* not been written.
NonExecFailureBeforePidWrite ==
    \A j \in DOMAIN log :
        (log[j].op = "write:fun" /\ log[j].str \in NonExecSteps) =>
            /\ ~\E i \in 1..(j - 1) : log[i].op = "write:childpid"
            /\ data.childpid = -1

\* The controls other than the parent-death signal are in effect in a
\* context that has written its pid.
DetachedAndIgnoring(c) ==
    /\ args.setsid => Detached
    /\ ctx[c].ignored = Ignorable(conv.sigign)

\* C20: in every state, a context that has written childpid has every
\* requested control in effect (session detached, parent-death signal armed,
\* mask signals ignored); and when fun is written with the name of a step
\* other than an exec, childpid still holds -1.
C20_PidWrittenControlsInEffect ==
    /\ \A c \in Ctx :
           WrotePid(c) =>
               /\ DetachedAndIgnoring(c)
               /\ conv.signal >= 1 => ctx[c].pdeathsig = conv.signal
    /\ NonExecFailureBeforePidWrite

PidWrittenOtherControls == \A c \in Ctx : WrotePid(c) => DetachedAndIgnoring(c)

=============================================================================
